---- MODULE Spec2Model ----
(***************************************************************************)
(* bevy_event_listener_component: per-entity event listeners driven by a   *)
(* per-event-type processor (src/src/lib.rs).                              *)
(*                                                                         *)
(* The model follows the application frame the plugin and add_event set up *)
(* (lib.rs:183, lib.rs:198-201): stage First runs the queue update of      *)
(* every event type, the driver update_event_listeners runs as the last    *)
(* system of stage PreUpdate, and the rest of the frame follows.           *)
(*   pc = "post" : after the driver of a frame (or application build and   *)
(*                 startup), up to the next frame's stage First            *)
(*   pc = "pre"  : between stage First and the driver                      *)
(*   other values: positions inside update_event_listeners                 *)
(***************************************************************************)
EXTENDS Integers, Sequences, FiniteSets, TLC

\* ---- bounds of the model ------------------------------------------------
MaxEvents == 2          \* events published in all
MaxHandlers == 2        \* handlers ever created
Entities == {1, 2}      \* entity ids the World may allocate
Types == {"E1", "E2"}   \* event types (TypeId values)

VARIABLES
    spawned,    \* entity ids allocated so far
    alive,      \* entities currently in the World
    hasTotal,   \* entities that carry the component C (MyTotal)
    total,      \* value of the component C per entity
    listener,   \* the EventListener<E> component per <<entity, type>>, None or Some(list)
    nextTag,    \* number of handlers created so far
    map,        \* keys of EventProcessors.map
    reader,     \* Processor.manual_event_reader.last_event_count per type
    events,     \* the host's Events<E> resource per type
    pc,         \* position in the frame / in the driver
    todo,       \* processors of the registry not yet run in this pass
    cur,        \* event type of the running processor
    entities,   \* the Vec<Entity> collected by process_event
    batch,      \* the events the reader's iterator yields in this run
    ei,         \* index into batch
    ni,         \* index into entities
    hi,         \* index into the locked list
    arc,        \* the list reached through the cloned Arc, lock held
    locked,     \* <<entity, type>> pairs whose Mutex is held
    calls,      \* history: handler invocations of the current pass, in order
    seen,       \* history: <<tag, type, event id>> delivered in completed passes
    before,     \* history: value of C per entity when the pass started
    delivered,  \* history: events iterated per type in this pass
    from,       \* history: reader position per type before its run
    runs,       \* history: runs of each type's processor in the current pass
    consumed,   \* history: per type, the event count its processors have read up to
    late,       \* history: <<tag, type, event id>>: the event was consumed before the list was attached
    removed,    \* history: handlers whose list was removed before the current pass
    rereg       \* history: types registered more than once

vars == <<spawned, alive, hasTotal, total, listener, nextTag, map, reader, events,
          pc, todo, cur, entities, batch, ei, ni, hi, arc, locked, calls, seen,
          before, delivered, from, runs, consumed, late, removed, rereg>>

world == <<spawned, alive, hasTotal, total, listener, nextTag>>
registry == <<map, reader, rereg>>
driver == <<todo, cur, entities, batch, ei, ni, hi, arc, locked>>
history == <<calls, seen, before, delivered, from, runs, consumed, late>>

Slots == Entities \X Types
NoType == "none"

\* Option<T>
None == <<>>
Some(x) == <<x>>
Unwrap(o) == o[1]

\* ---- sequences ----------------------------------------------------------
RECURSIVE Sum(_)
Sum(s) == IF s = <<>> THEN 0 ELSE Head(s) + Sum(Tail(s))

Range(s) == {s[i] : i \in 1..Len(s)}

Perms(S) ==
    {p \in [1..Cardinality(S) -> S] : \A i, j \in 1..Cardinality(S) : p[i] = p[j] => i = j}

\* ---- the host's event queue (bevy Events<E>, double buffered) -----------
\* events_old / events_new are the older and the current buffer (events_a
\* and events_b in the roles the `state` flag gives them).
EventsDefault ==
    [events_old |-> <<>>, events_new |-> <<>>,
     old_start |-> 0, new_start |-> 0, event_count |-> 0]

EventsSend(q, p) ==
    [q EXCEPT !.events_new = Append(@, p), !.event_count = @ + 1]

EventsUpdate(q) ==
    [q EXCEPT !.events_old = q.events_new, !.old_start = q.new_start,
              !.events_new = <<>>, !.new_start = q.event_count]

Numbered(buf, start, skip) ==
    [i \in 1..(Len(buf) - skip) |-> [id |-> start + skip + i - 1, payload |-> buf[skip + i]]]

BufferIndex(last_event_count, start, buf) ==
    LET index == IF last_event_count > start THEN last_event_count - start ELSE 0
    IN  IF index > Len(buf) THEN Len(buf) ELSE index

ReaderIter(q, last_event_count) ==
    Numbered(q.events_old, q.old_start,
             BufferIndex(last_event_count, q.old_start, q.events_old))
    \o Numbered(q.events_new, q.new_start,
                BufferIndex(last_event_count, q.new_start, q.events_new))

\* ---- listener lists ------------------------------------------------------
\* faulty variant: the handler is inserted at the front of the list
PushFront(l, h) == <<h>> \o l

\* Vec::push on the locked storage (lib.rs:86, lib.rs:95)
push(l, h) == Append(l, h)

\* EventHandler::new: the next handler; tags number handlers in creation order
NewHandler(kind) == [kind |-> kind, tag |-> nextTag + 1]

\* the closures the model passes to EventListener::add (raw form):
\*   Rec          only records the event
\*   SelfAdd      world.get_mut::<EventListener<E>>(entity), then add(..) on it
\*   DespawnSelf  world.despawn(entity)
RawKinds == {"Rec", "SelfAdd", "DespawnSelf"}

\* closures that act on the rest of the World:
\*   DespawnOther  world.despawn(o) for every other entity o
\*   Publish       if let Some(mut q) = world.get_resource_mut::<Events<E>>()
\*                 { q.send(..) }, E being the type of the handler's own list
EffectKinds == {"DespawnOther", "Publish"}

Tags(l) == {l[i].tag : i \in 1..Len(l)}

\* world.get_mut::<EventListener<E>>(entity) is Some
HasListener(e, t) == listener[<<e, t>>] # None

Attached == {s \in Slots : listener[s] # None}

AttachedTags == UNION {Tags(Unwrap(listener[s])) : s \in Attached}

SlotsOf(e) == {s \in Slots : s[1] = e}

\* the listener components left when those of `gone` are removed with their storage
\* faulty variant: removal leaves the components where they are
KeepAll(ls, gone) == ls

Remove(ls, gone) == [s \in Slots |-> IF s \in gone THEN None ELSE ls[s]]

RECURSIVE Published(_)
Published(S) ==
    IF S = {} THEN 0
    ELSE LET t == CHOOSE x \in S : TRUE
         IN  events[t].event_count + Published(S \ {t})

\* ---- initial state --------------------------------------------------------
Init ==
    /\ spawned = {} /\ alive = {} /\ hasTotal = {}
    /\ total = [e \in Entities |-> 0]
    /\ listener = [s \in Slots |-> None]
    /\ nextTag = 0
    /\ map = {}
    /\ reader = [t \in Types |-> 0]
    /\ events = [t \in Types |-> EventsDefault]
    /\ pc = "post"
    /\ todo = {} /\ cur = NoType /\ entities = <<>> /\ batch = <<>>
    /\ ei = 0 /\ ni = 0 /\ hi = 0 /\ arc = <<>> /\ locked = {}
    /\ calls = <<>> /\ seen = {}
    /\ before = [e \in Entities |-> 0]
    /\ delivered = [t \in Types |-> <<>>]
    /\ from = [t \in Types |-> 0]
    /\ runs = [t \in Types |-> 0]
    /\ consumed = [t \in Types |-> 0]
    /\ late = {}
    /\ removed = {} /\ rereg = {}

\* ---- application code outside the driver ---------------------------------
\* commands.spawn_bundle((MyTotal(0), ..)) / commands.spawn()
Spawn(Ents, withTotal) ==
    /\ pc = "post"
    /\ Ents \ spawned # {}
    /\ LET e == CHOOSE x \in Ents \ spawned : \A y \in Ents \ spawned : x <= y
       IN  /\ spawned' = spawned \cup {e}
           /\ alive' = alive \cup {e}
           /\ hasTotal' = IF withTotal THEN hasTotal \cup {e} ELSE hasTotal
    /\ UNCHANGED <<total, listener, nextTag, registry, events, pc, driver, history,
                   removed>>

\* EventListener::new
new == <<>>

\* a listener is built and inserted on an entity as a component:
\*   mutator   EventListener::mutator(f)
\*   from      EventListener::from(f): new(), then add of a closure that calls f
\*   new       EventListener::new(), then add(closure) (examples/hello_world.rs)
InsertListener(e, t, ctor, kind, Raw) ==
    /\ pc = "post"
    /\ e \in alive
    /\ ~HasListener(e, t)
    /\ nextTag < MaxHandlers
    /\ ctor = "mutator" => kind = "Mut"
    /\ ctor = "from" => kind = "Rec"
    /\ ctor = "new" => kind \in Raw
    /\ listener' = [listener EXCEPT ![<<e, t>>] = Some(push(new, NewHandler(kind)))]
    /\ nextTag' = nextTag + 1
    /\ late' = late \cup {<<nextTag + 1, t, id>> : id \in events[t].old_start..(consumed[t] - 1)}
    /\ UNCHANGED <<spawned, alive, hasTotal, total, registry, events, pc, driver,
                   calls, seen, before, delivered, from, runs, consumed, removed>>

\* EventListener::add
add(e, t, kind) ==
    /\ pc = "post"
    /\ HasListener(e, t)
    /\ nextTag < MaxHandlers
    /\ listener' = [listener EXCEPT ![<<e, t>>] = Some(push(Unwrap(@), NewHandler(kind)))]
    /\ nextTag' = nextTag + 1
    /\ UNCHANGED <<spawned, alive, hasTotal, total, registry, events, pc, driver,
                   history, removed>>

\* commands.entity(e).remove::<EventListener<E>>()
RemoveListener(e, t) ==
    /\ pc = "post"
    /\ HasListener(e, t)
    /\ listener' = Remove(listener, {<<e, t>>})
    /\ removed' = removed \cup Tags(Unwrap(listener[<<e, t>>]))
    /\ UNCHANGED <<spawned, alive, hasTotal, total, nextTag, registry, events, pc,
                   driver, history>>

\* commands.entity(e).despawn()
Despawn(e) ==
    /\ pc = "post"
    /\ e \in alive
    /\ alive' = alive \ {e}
    /\ hasTotal' = hasTotal \ {e}
    /\ total' = [total EXCEPT ![e] = 0]
    /\ listener' = Remove(listener, SlotsOf(e))
    /\ removed' = removed \cup UNION {Tags(Unwrap(listener[s])) : s \in SlotsOf(e) \cap Attached}
    /\ UNCHANGED <<spawned, nextTag, registry, events, pc, driver, history>>

\* commands.entity(e).remove::<MyTotal>()
RemoveTotal(e) ==
    /\ pc = "post"
    /\ e \in hasTotal
    /\ hasTotal' = hasTotal \ {e}
    /\ total' = [total EXCEPT ![e] = 0]
    /\ UNCHANGED <<spawned, alive, listener, nextTag, registry, events, pc, driver,
                   history, removed>>

\* Processor::default: a reader that has seen nothing
ProcessorDefault == 0

\* faulty variant: a registration replaces the processor of every type
add_event_and_rebuild(t) ==
    /\ pc = "post"
    /\ events' = [events EXCEPT ![t] = IF t \in map THEN @ ELSE EventsDefault]
    /\ map' = map \cup {t}
    /\ reader' = [u \in Types |-> ProcessorDefault]
    /\ rereg' = IF t \in map THEN rereg \cup {t} ELSE rereg
    /\ UNCHANGED <<world, pc, driver, history, removed>>

\* App::add_event_and_listen: add_event (the queue is created when absent), then
\* the processor of the type is inserted into the registry
add_event_and_listen(t) ==
    /\ pc = "post"
    /\ events' = [events EXCEPT ![t] = IF t \in map THEN @ ELSE EventsDefault]
    /\ map' = map \cup {t}
    /\ reader' = [reader EXCEPT ![t] = ProcessorDefault]
    /\ rereg' = IF t \in map THEN rereg \cup {t} ELSE rereg
    /\ UNCHANGED <<world, pc, driver, history, removed>>

\* the payload of the next event: for x in 0..5 { writer.send(MyEvent(x)) }
Payload(q) == q.event_count

\* EventWriter::send
Send(t) ==
    /\ pc \in {"pre", "post"}
    /\ t \in map
    /\ Published(Types) < MaxEvents
    /\ events' = [events EXCEPT ![t] = EventsSend(@, Payload(@))]
    /\ UNCHANGED <<world, registry, pc, driver, history, removed>>

\* stage First of a frame: Events::<E>::update_system of every added event type
FrameStart ==
    /\ pc = "post"
    /\ pc' = "pre"
    /\ events' = [t \in Types |-> IF t \in map THEN EventsUpdate(events[t]) ELSE events[t]]
    /\ seen' = {x \in seen : x[3] >= events'[x[2]].old_start}
    /\ late' = {x \in late : x[3] >= events'[x[2]].old_start /\ x[1] \in AttachedTags}
    /\ UNCHANGED <<world, registry, driver, calls, before, delivered, from, runs,
                   consumed, removed>>

\* ---- the driver: update_event_listeners ----------------------------------
InPass == pc \notin {"pre", "post"}

\* update_event_listeners is entered: resource_scope takes EventProcessors out of
\* the World and panics when the World holds no such resource; the resource is
\* only ever inserted by add_event_and_listen (lib.rs:184).
PassStart ==
    /\ pc = "pre"
    /\ IF map = {}
       THEN /\ pc' = "no_resource"
            /\ UNCHANGED <<todo, before>>
       ELSE /\ pc' = "driver"
            /\ todo' = map
            /\ before' = total
    /\ UNCHANGED <<world, registry, events, cur, entities, batch, ei, ni, hi, arc,
                   locked, calls, seen, delivered, from, runs, consumed, late, removed>>

\* faulty variant: the reader is left at the start of the older buffer
ReaderAtOldStart(q) == q.old_start

\* faulty variant: the reader is left at the start of the current buffer
ReaderAtBufferStart(q) == q.new_start

\* ManualEventReader::iter leaves the reader at the queue's event_count
AdvancedReader(q) == q.event_count

\* faulty variant: the iteration over the registry stops after its first entry
RemainingNone(S, t) == {}

\* map.values_mut(): the entries the iterator has still to yield after t
Remaining(S, t) == S \ {t}

\* faulty variant: the query has no With filter
CollectedUnfiltered(t) == Perms(alive)

\* Query<Entity, With<EventListener<E>>>: the entities collected, in any order
Collected(t) == Perms({e \in Entities : HasListener(e, t)})

\* faulty variant: a run advances the reader of every registered type
process_event_all(t) ==
    /\ pc = "driver"
    /\ t \in todo
    /\ todo' = Remaining(todo, t)
    /\ cur' = t
    /\ entities' \in Collected(t)
    /\ batch' = ReaderIter(events[t], reader[t])
    /\ reader' = [u \in Types |-> IF u \in map THEN AdvancedReader(events[u])
                                                ELSE reader[u]]
    /\ from' = [from EXCEPT ![t] = reader[t]]
    /\ delivered' = [delivered EXCEPT ![t] = batch']
    /\ runs' = [runs EXCEPT ![t] = @ + 1]
    /\ consumed' = [consumed EXCEPT ![t] = AdvancedReader(events[t])]
    /\ ei' = 1 /\ ni' = 1 /\ hi' = 0
    /\ pc' = "events"
    /\ UNCHANGED <<world, map, rereg, events, arc, locked, calls, seen, before, late,
                   removed>>

\* Processor::process_event up to the first event: the next processor of
\* map.values_mut() (any order) takes Events<E>, collects the entities and
\* obtains the reader's iterator.
process_event(t) ==
    /\ pc = "driver"
    /\ t \in todo
    /\ todo' = Remaining(todo, t)
    /\ cur' = t
    /\ entities' \in Collected(t)
    /\ batch' = ReaderIter(events[t], reader[t])
    /\ reader' = [reader EXCEPT ![t] = AdvancedReader(events[t])]
    /\ from' = [from EXCEPT ![t] = reader[t]]
    /\ delivered' = [delivered EXCEPT ![t] = batch']
    /\ runs' = [runs EXCEPT ![t] = @ + 1]
    /\ consumed' = [consumed EXCEPT ![t] = AdvancedReader(events[t])]
    /\ ei' = 1 /\ ni' = 1 /\ hi' = 0
    /\ pc' = "events"
    /\ UNCHANGED <<world, map, rereg, events, arc, locked, calls, seen, before, late,
                   removed>>

\* the inner loop moves on: the next entity of this event, or the next event
NextEntity ==
    IF ni < Len(entities)
    THEN ni' = ni + 1 /\ UNCHANGED ei
    ELSE ni' = 1 /\ ei' = ei + 1

\* for event in ..: for &entity in entities.iter(): when the entity has the
\* component, clone the Arc, lock it and call the first handler with the guard in
\* scope (every list of the model holds a handler).
VisitEntity ==
    /\ pc = "events"
    /\ ei <= Len(batch)
    /\ ni <= Len(entities)
    /\ LET s == <<entities[ni], cur>>
       IN  IF HasListener(s[1], s[2])
           THEN /\ arc' = Unwrap(listener[s])
                /\ locked' = {s}
                /\ hi' = 1
                /\ pc' = "on_event"
                /\ UNCHANGED <<ei, ni>>
           ELSE /\ NextEntity
                /\ UNCHANGED <<arc, locked, hi, pc>>
    /\ UNCHANGED <<world, registry, events, todo, cur, entities, batch, history,
                   removed>>

\* faulty variant: the processor drains the queue it has read
ProcessorDoneDrained ==
    /\ pc = "events"
    /\ ei > Len(batch) \/ entities = <<>>
    /\ pc' = "driver"
    /\ cur' = NoType /\ entities' = <<>> /\ batch' = <<>>
    /\ ei' = 0 /\ ni' = 0
    /\ events' = [events EXCEPT ![cur] =
                      [events_old |-> <<>>, events_new |-> <<>>,
                       old_start |-> @.event_count, new_start |-> @.event_count,
                       event_count |-> @.event_count]]
    /\ UNCHANGED <<world, registry, todo, hi, arc, locked, history, removed>>

\* the iterator is exhausted (or no entity was collected): process_event returns
\* and Events<E> goes back into the World
ProcessorDone ==
    /\ pc = "events"
    /\ ei > Len(batch) \/ entities = <<>>
    /\ pc' = "driver"
    /\ cur' = NoType /\ entities' = <<>> /\ batch' = <<>>
    /\ ei' = 0 /\ ni' = 0
    /\ UNCHANGED <<world, registry, events, todo, hi, arc, locked, history, removed>>

\* list.iter_mut(): the i-th handler visited
NextHandler(l, i) == l[i]

\* faulty variant: the callback runs whenever the entity exists
EntityExists(e) == e \in alive

\* mutator: world.get_entity_mut(entity) and entity_mut.get_mut::<C>() are Some
MutatorApplies(e) == e \in alive /\ e \in hasTotal

\* faulty variant: the callback counts the events instead of adding their payloads
AccumulateCount(value, payload) == value + 1

\* the callback of examples/minimal.rs: total.0 += event.0
Accumulate(value, payload) == value + payload

\* faulty variant: the handler despawns nothing
NoOthers(e) == {}

\* the entities a DespawnOther closure despawns when called with entity e
Others(e) == Entities \ {e}

\* faulty variant: the queue of a type stays in the World while its processor runs
InWorldAlways(t) == t \in map

\* world.get_resource_mut::<Events<E>>() is Some: the queue exists and
\* resource_scope has not taken it out of the World (lib.rs:138)
InWorld(t) == t \in map /\ t # cur

\* faulty variant: the iteration of a list ends when a handler despawned the entity
ReturnedUnlessGone(h, e, ran) ==
    /\ calls' = Append(calls, [tag |-> h.tag, kind |-> h.kind, ent |-> e, ty |-> cur,
                               id |-> batch[ei].id, ran |-> ran])
    /\ IF hi < Len(arc) /\ h.kind # "DespawnSelf"
       THEN /\ hi' = hi + 1
            /\ UNCHANGED <<pc, arc, locked, ei, ni>>
       ELSE /\ hi' = 0
            /\ arc' = <<>>
            /\ locked' = {}
            /\ pc' = "events"
            /\ NextEntity

\* on_event returns: the next handler of the list is called, or the list is
\* exhausted and the guard is dropped at the end of the if-let block
Returned(h, e, ran) ==
    /\ calls' = Append(calls, [tag |-> h.tag, kind |-> h.kind, ent |-> e, ty |-> cur,
                               id |-> batch[ei].id, ran |-> ran])
    /\ IF hi < Len(arc)
       THEN /\ hi' = hi + 1
            /\ UNCHANGED <<pc, arc, locked, ei, ni>>
       ELSE /\ hi' = 0
            /\ arc' = <<>>
            /\ locked' = {}
            /\ pc' = "events"
            /\ NextEntity

\* HandlesEvent::on_event: the body of the handler, by the closure it wraps
on_event ==
    /\ pc = "on_event"
    /\ LET h == NextHandler(arc, hi)
           e == entities[ni]
       IN  CASE h.kind = "Mut" ->
                  /\ total' = IF MutatorApplies(e)
                              THEN [total EXCEPT ![e] = Accumulate(@, batch[ei].payload)]
                              ELSE total
                  /\ Returned(h, e, MutatorApplies(e))
                  /\ UNCHANGED <<spawned, alive, hasTotal, listener, nextTag>>
             [] h.kind = "Rec" ->
                  /\ Returned(h, e, TRUE)
                  /\ UNCHANGED world
             [] h.kind = "DespawnSelf" ->
                  /\ alive' = alive \ {e}
                  /\ hasTotal' = hasTotal \ {e}
                  /\ total' = [total EXCEPT ![e] = 0]
                  /\ listener' = Remove(listener, SlotsOf(e))
                  /\ Returned(h, e, TRUE)
                  /\ UNCHANGED <<spawned, nextTag>>
             [] h.kind = "DespawnOther" ->
                  /\ alive' = alive \ Others(e)
                  /\ hasTotal' = hasTotal \ Others(e)
                  /\ total' = [x \in Entities |-> IF x \in Others(e) THEN 0 ELSE total[x]]
                  /\ listener' = Remove(listener, UNION {SlotsOf(o) : o \in Others(e)})
                  /\ Returned(h, e, TRUE)
                  /\ UNCHANGED <<spawned, nextTag>>
             [] h.kind = "Publish" ->
                  /\ Returned(h, e, TRUE)
                  /\ UNCHANGED world
             [] h.kind = "SelfAdd" ->
                  \* add locks the storage; locking a std Mutex the thread already
                  \* holds never returns: it deadlocks or panics.
                  IF HasListener(e, cur) /\ <<e, cur>> \in locked
                  THEN /\ pc' \in {"deadlock", "lock_panic"}
                       /\ UNCHANGED <<world, calls, hi, arc, locked, ei, ni>>
                  ELSE /\ Returned(h, e, TRUE)
                       /\ UNCHANGED world
    /\ events' = IF /\ NextHandler(arc, hi).kind = "Publish"
                     /\ InWorld(cur)
                     /\ Published(Types) < MaxEvents
                  THEN [events EXCEPT ![cur] = EventsSend(@, Payload(@))]
                  ELSE events
    /\ UNCHANGED <<registry, todo, cur, entities, batch, seen, before,
                   delivered, from, runs, consumed, late, removed>>

PassComplete == pc = "driver" /\ todo = {}

\* update_event_listeners returns; the rest of the frame follows
PassEnd ==
    /\ PassComplete
    /\ pc' = "post"
    /\ calls' = <<>>
    /\ seen' = seen \cup {<<calls[i].tag, calls[i].ty, calls[i].id>> : i \in 1..Len(calls)}
    /\ before' = [e \in Entities |-> 0]
    /\ delivered' = [t \in Types |-> <<>>]
    /\ from' = [t \in Types |-> 0]
    /\ runs' = [t \in Types |-> 0]
    /\ UNCHANGED <<consumed, late>>
    /\ removed' = removed \cup ((1..nextTag) \ AttachedTags)
    /\ UNCHANGED <<world, registry, events, driver>>

\* one step of the program, over the entities, event types and raw closures in scope
Step(Ents, Tys, Raw) ==
    \/ \E c \in BOOLEAN : Spawn(Ents, c)
    \/ \E e \in Ents, t \in Tys, ctor \in {"new", "mutator", "from"}, k \in Raw \cup {"Mut"} :
          InsertListener(e, t, ctor, k, Raw)
    \/ \E e \in Ents, t \in Tys, k \in Raw : add(e, t, k)
    \/ \E e \in Ents, t \in Tys : RemoveListener(e, t)
    \/ \E e \in Ents : Despawn(e)
    \/ \E e \in Ents : RemoveTotal(e)
    \/ \E t \in Tys : add_event_and_listen(t)
    \/ \E t \in Tys : Send(t)
    \/ FrameStart
    \/ PassStart
    \/ \E t \in Tys : process_event(t)
    \/ VisitEntity
    \/ ProcessorDone
    \/ on_event
    \/ PassEnd

\* one event type, every entity, every closure
Next == Step(Entities, {"E1"}, RawKinds)

Spec == Init /\ [][Next]_vars

\* every event type, one entity, closures that leave listeners alone
NextTypes == Step({1}, Types, {"Rec"})

SpecTypes == Init /\ [][NextTypes]_vars

\* one event type, every entity, closures that act on the rest of the World
NextEffects == Step(Entities, {"E1"}, EffectKinds)

SpecEffects == Init /\ [][NextEffects]_vars

\* ---- helpers of the properties --------------------------------------------
\* the ids / payloads of a sequence of events or calls
IdsOf(q) == [i \in 1..Len(q) |-> q[i].id]
PayloadsOf(q) == [i \in 1..Len(q) |-> q[i].payload]

\* the invocations of one handler in the current pass, in order
CallsOf(tag) == SelectSeq(calls, LAMBDA c : c.tag = tag)

\* the invocations made while one entity's list was visited for one event
VisitOf(e, t, id) == SelectSeq(calls, LAMBDA c : c.ent = e /\ c.ty = t /\ c.id = id)

\* the entity's only listener is a list of type t holding a single mutator handler
OnlyMutator(e, t) ==
    /\ HasListener(e, t)
    /\ Len(Unwrap(listener[<<e, t>>])) = 1
    /\ Unwrap(listener[<<e, t>>])[1].kind = "Mut"
    /\ \A t2 \in Types \ {t} : ~HasListener(e, t2)
    /\ e \in hasTotal

\* C1: when a driver pass is complete, an entity whose listener list for a
\* registered type holds one handler adding the payload to its counter has a
\* counter equal to its value before the pass plus the sum of the payloads of the
\* N events unread at the pass, and that handler was invoked exactly N times,
\* once per event, in publication order.
C1_CounterIsSumOfPayloads ==
    PassComplete =>
        \A e \in Entities, t \in map :
            OnlyMutator(e, t) =>
                /\ total[e] = before[e] + Sum(PayloadsOf(delivered[t]))
                /\ IdsOf(CallsOf(Unwrap(listener[<<e, t>>])[1].tag)) = IdsOf(delivered[t])

C1_Witness ==
    /\ PassComplete
    /\ \E e \in Entities, t \in map :
          /\ OnlyMutator(e, t)
          /\ Len(delivered[t]) >= 2
          /\ total[e] > before[e]

\* C2: within one event type, events are delivered in publication order: in a
\* pass every invocation for an event precedes every invocation for an event
\* published after it, and no invocation carries an event published before one
\* that an earlier pass has delivered.
C2_PublicationOrder ==
    /\ \A i, j \in 1..Len(calls) :
          (i < j /\ calls[i].ty = calls[j].ty) => calls[i].id <= calls[j].id
    /\ \A i \in 1..Len(calls) : \A x \in seen :
          x[2] = calls[i].ty => x[3] <= calls[i].id

\* the part of C2 about one pass, and C2 while no type is registered twice
C2_OrderInPass ==
    \A i, j \in 1..Len(calls) :
        (i < j /\ calls[i].ty = calls[j].ty) => calls[i].id <= calls[j].id

C2_OrderWithoutReregistration ==
    \A i \in 1..Len(calls) : \A x \in seen :
        (x[2] = calls[i].ty /\ calls[i].ty \notin rereg) => x[3] <= calls[i].id

IsPrefix(a, b) == Len(a) <= Len(b) /\ SubSeq(b, 1, Len(a)) = a

TagsOf(q) == [i \in 1..Len(q) |-> q[i].tag]

\* the handlers of a visit are invoked in the order they were created and
\* appended; once the pass is complete every attached list of a processed type
\* has had all its handlers invoked, in list order, for every event iterated
C3_InvokedInAppendOrder ==
    /\ \A i, j \in 1..Len(calls) :
          (i < j /\ calls[i].ent = calls[j].ent /\ calls[i].ty = calls[j].ty
                 /\ calls[i].id = calls[j].id) => calls[i].tag < calls[j].tag
    /\ PassComplete =>
          \A s \in Attached : \A k \in 1..Len(delivered[s[2]]) :
              TagsOf(VisitOf(s[1], s[2], delivered[s[2]][k].id)) = TagsOf(Unwrap(listener[s]))

\* a list that stays attached keeps its handlers in place and only grows at its end
C3_OnlyExtended ==
    \A s \in Slots :
        (listener[s] # None /\ listener'[s] # None) =>
            IsPrefix(Unwrap(listener[s]), Unwrap(listener'[s]))

\* C3: handlers attached to one listener list (built by mutator, from or new and
\* extended with add) are invoked for every delivered event in exactly the order
\* in which they were appended, and the list is only ever extended at its end.
C3_AppendOrder == []C3_InvokedInAppendOrder /\ [][C3_OnlyExtended]_vars

C3_Witness ==
    /\ PassComplete
    /\ \E s \in Attached :
          /\ Len(Unwrap(listener[s])) >= 2
          /\ Len(delivered[s[2]]) >= 1
          /\ Len(VisitOf(s[1], s[2], delivered[s[2]][1].id)) >= 2

\* the number of invocations of a handler for one event in the current pass
Times(tag, t, id) ==
    Cardinality({i \in 1..Len(calls) :
                    calls[i].tag = tag /\ calls[i].ty = t /\ calls[i].id = id})

\* C4: while the processor of a type is not re-registered, no handler is invoked
\* for an event it was invoked for before (in this pass or an earlier one), and
\* when a pass is complete every event published since the previous run of the
\* processor has been iterated and delivered exactly once to every handler of
\* every list attached during the pass.
C4_DeliveredOnce ==
    /\ \A i \in 1..Len(calls) :
          calls[i].ty \notin rereg =>
              /\ <<calls[i].tag, calls[i].ty, calls[i].id>> \notin seen
              /\ Times(calls[i].tag, calls[i].ty, calls[i].id) = 1
    /\ PassComplete =>
          \A t \in map \ rereg :
              /\ IdsOf(delivered[t]) =
                    [k \in 1..(events[t].event_count - from[t]) |-> from[t] + k - 1]
              /\ \A s \in Attached :
                    s[2] = t =>
                        \A h \in Range(Unwrap(listener[s])) :
                            \A id \in from[t]..(events[t].event_count - 1) :
                                Times(h.tag, t, id) = 1

C4_Witness ==
    /\ PassComplete
    /\ \E t \in map \ rereg : \E s \in Attached :
          /\ s[2] = t
          /\ from[t] > 0
          /\ Len(delivered[t]) > 0
          /\ \E x \in seen : x[1] \in Tags(Unwrap(listener[s])) /\ x[3] < from[t]
          /\ \E i \in 1..Len(calls) : calls[i].tag \in Tags(Unwrap(listener[s]))

\* C5: after an already-registered event type is registered again, no handler
\* is invoked for an event it was already invoked for in a pass before the
\* re-registration, even while the queue still retains that event.
C5_NoRedeliveryAfterReregistration ==
    \A i \in 1..Len(calls) :
        calls[i].ty \in rereg =>
            <<calls[i].tag, calls[i].ty, calls[i].id>> \notin seen

\* the new processor's reader does start from a fresh position
C5_CursorReset ==
    [][\A t \in Types : add_event_and_listen(t) => reader'[t] = ProcessorDefault]_vars

\* C6: the guard of a listener list is never held by the processor while one of
\* that list's handlers is executing.
C6_GuardReleasedBeforeHandlers ==
    ~(pc = "on_event" /\ <<entities[ni], cur>> \in locked)

\* C7: a driver pass, once started, runs to completion: it never stops inside a
\* handler that appends to the listener list it is being invoked from.
C7_PassRunsToCompletion ==
    pc \notin {"deadlock", "lock_panic"}

\* C8: for an event type that was never registered, a driver pass invokes no
\* handler of any listener list of that type and does not abort, whatever other
\* types are registered (none at all included).
C8_UnregisteredTypeIgnored ==
    \A t \in Types \ map :
        /\ \A i \in 1..Len(calls) : calls[i].ty # t
        /\ (\E e \in Entities : HasListener(e, t)) => pc # "no_resource"

\* the part of C8 that does hold: no handler of an unregistered type is invoked
C8_NoHandlerOfUnregisteredType ==
    \A t \in Types \ map : \A i \in 1..Len(calls) : calls[i].ty # t

\* C9: a mutator handler runs its callback for a delivered event exactly when
\* its entity exists and has the component; otherwise the call is skipped, the
\* world is left as it was, and in both cases delivery goes on with the next
\* handler, entity or event.
C9_MutatorStep ==
    (pc = "on_event" /\ arc[hi].kind = "Mut") =>
        LET e == entities[ni]
            present == e \in alive /\ e \in hasTotal
        IN  /\ Len(calls') = Len(calls) + 1
            /\ calls'[Len(calls')].tag = arc[hi].tag
            /\ calls'[Len(calls')].ran = present
            /\ ~present => world' = world
            /\ present => /\ total' = [total EXCEPT ![e] = @ + batch[ei].payload]
                          /\ UNCHANGED <<spawned, alive, hasTotal, listener, nextTag>>
            /\ pc' \in {"on_event", "events"}

C9_MutatorCallbackIffComponent == [][C9_MutatorStep]_vars

C9_Witness ==
    \E i, j, k \in 1..Len(calls) :
        /\ i < j
        /\ calls[i].kind = "Mut" /\ ~calls[i].ran
        /\ calls[k].kind = "Mut" /\ calls[k].ran

\* C10: a handler of a listener list that was removed before a driver pass, with
\* its component or with its entity, is not invoked in that pass or a later
\* one; an entity found without the component is passed over, and a completed
\* pass has delivered every iterated event to every handler of every list
\* still attached.
C10_NoCallOfRemoved ==
    /\ \A i \in 1..Len(calls) : calls[i].tag \notin removed
    /\ PassComplete =>
          \A s \in Attached :
              s[2] \in map =>
                  \A h \in Range(Unwrap(listener[s])) :
                      \A i \in 1..Len(delivered[s[2]]) :
                          Times(h.tag, s[2], delivered[s[2]][i].id) >= 1

C10_PassedOver ==
    (/\ pc = "events"
     /\ ei <= Len(batch)
     /\ ni <= Len(entities)
     /\ ~HasListener(entities[ni], cur)) => pc' = "events" /\ calls' = calls

C10_RemovedListenerNotDelivered == []C10_NoCallOfRemoved /\ [][C10_PassedOver]_vars

C10_Witness ==
    /\ PassComplete
    /\ removed # {}
    /\ \E e \in spawned \ alive : \E x \in seen : x[1] \in removed
    /\ \E t \in map : Len(delivered[t]) > 0 /\ \E s \in Attached : s[2] = t
    /\ calls # <<>>

\* C11: only entities that carry a listener list for the type are visited: the
\* snapshot of a processor run holds exactly the carriers, every invocation
\* names an entity of the snapshot, and a list is entered only on an entity
\* that has it at that moment; an entity without the list causes no error.
C11_CallsWithinSnapshot ==
    pc \in {"events", "on_event"} =>
        \A i \in 1..Len(calls) : calls[i].ty = cur => calls[i].ent \in Range(entities)

C11_VisitStep ==
    /\ (pc = "driver" /\ pc' = "events") =>
          Range(entities') = {e \in Entities : HasListener(e, cur')}
    /\ (pc = "events" /\ pc' = "on_event") => HasListener(entities[ni], cur)
    /\ (pc = "events" /\ ei <= Len(batch) /\ ni <= Len(entities)
          /\ ~HasListener(entities[ni], cur)) => (pc' = "events" /\ calls' = calls)
    /\ Len(calls') > Len(calls) =>
          /\ calls'[Len(calls')].ent = entities[ni]
          /\ calls'[Len(calls')].ty = cur
          /\ hi = 1 => HasListener(entities[ni], cur)

C12_RegistrationStep ==
    /\ map \subseteq map'
    /\ (pc = "post" /\ registry' # registry) =>
          \E t \in Types :
              /\ map' = map \cup {t}
              /\ reader'[t] = ProcessorDefault
              /\ \A u \in Types \ {t} : reader'[u] = reader[u]
              /\ rereg' \ rereg \subseteq {t} \cap map

C12_OneProcessorPerType == [][C12_RegistrationStep]_vars

C12_Witness ==
    \E t \in rereg : \E u \in map \ rereg :
        /\ events[t].event_count > 0
        /\ reader[t] = ProcessorDefault
        /\ reader[u] > 0

\* C13: one driver pass runs the processor of every registered type exactly
\* once: during the pass no processor has run twice and none of an unregistered
\* type has run, the processors that have run are those the iteration has
\* passed, and when the pass is complete every registered type has run once.
C13_EveryProcessorOnce ==
    /\ \A t \in Types : runs[t] <= 1 /\ (t \notin map => runs[t] = 0)
    /\ pc \in {"driver", "events", "on_event"} =>
          \A t \in map : runs[t] = IF t \in todo THEN 0 ELSE 1
    /\ PassComplete => \A t \in map : runs[t] = 1

C13_Witness ==
    /\ PassComplete
    /\ map = Types
    /\ \A t \in Types : runs[t] = 1 /\ Len(delivered[t]) > 0
    /\ calls # <<>>

\* C14: the cursor of a type's processor never moves backwards while that
\* processor lives (a registration installs a new processor), no publish moves
\* it, and after a completed pass it stands past every event that was in the
\* queue when the pass started, whether or not any entity has a list of the type.
C14_CursorStep ==
    /\ (pc # "post" \/ registry' = registry) =>
          \A t \in Types : reader'[t] >= reader[t]
    /\ (\E t \in Types : events'[t].event_count > events[t].event_count) =>
          reader' = reader

C14_CursorPastQueue ==
    PassComplete =>
        \A t \in map :
            /\ reader[t] = events[t].event_count
            /\ \A k \in 1..Len(delivered[t]) : delivered[t][k].id < reader[t]
            /\ reader[t] >= from[t]

C14_CursorMonotone == []C14_CursorPastQueue /\ [][C14_CursorStep]_vars

C14_Witness ==
    /\ PassComplete
    /\ \E t \in map :
          /\ Len(delivered[t]) > 0
          /\ from[t] > 0
          /\ reader[t] > from[t]
          /\ \A e \in Entities : ~HasListener(e, t)

\* C15: a driver pass only reads the event queues: from the entry into the
\* driver to its return no step changes the buffers, the start counts or the
\* event count of any queue, and reading a queue again from the cursor's old
\* position at the end of the pass yields the events the pass iterated.
C15_QueueStep ==
    (pc \notin {"post"} /\ ~(pc = "pre" /\ pc' = "pre")) => events' = events

C15_QueueAsIterated ==
    PassComplete =>
        \A t \in map : delivered[t] = ReaderIter(events[t], from[t])

C15_QueuesOnlyRead == []C15_QueueAsIterated /\ [][C15_QueueStep]_vars

C15_Witness ==
    /\ PassComplete
    /\ calls # <<>>
    /\ \E t \in map :
          /\ Len(events[t].events_old) > 0
          /\ Len(events[t].events_new) > 0
          /\ Len(delivered[t]) > 0

\* C16: an entity given a listener list for a type only after a driver pass
\* has consumed an event of that type never receives that event: no handler
\* is invoked for an event that a processor of the type had already read when
\* the handler's list was attached.
C16_LateListenerMissesConsumed ==
    \A i \in 1..Len(calls) :
        <<calls[i].tag, calls[i].ty, calls[i].id>> \notin late

\* C16 holds for the types that are registered only once
C16_LateWithoutReregistration ==
    \A i \in 1..Len(calls) :
        calls[i].ty \notin rereg =>
            <<calls[i].tag, calls[i].ty, calls[i].id>> \notin late

\* a late listener does get the events still unread when it is first visited
C16_LateStillServed ==
    /\ PassComplete
    /\ \E x \in late : \E i \in 1..Len(calls) :
          calls[i].tag = x[1] /\ calls[i].ty \notin rereg /\ calls[i].id > x[3]

\* C17: once a handler has despawned the other entities of the snapshot during
\* a pass, no handler is invoked for any of them in the rest of the pass; the
\* despawning call returns into the delivery loop, and a completed pass has
\* delivered every iterated event to every handler of the lists still attached.
C17_NoCallAfterRemoval ==
    /\ \A k, j \in 1..Len(calls) :
          (k < j /\ calls[k].kind = "DespawnOther") => calls[j].ent = calls[k].ent
    /\ PassComplete =>
          \A s \in Attached :
              s[2] \in map =>
                  \A h \in Range(Unwrap(listener[s])) :
                      \A i \in 1..Len(delivered[s[2]]) :
                          Times(h.tag, s[2], delivered[s[2]][i].id) = 1

C17_RemovalStep ==
    (pc = "on_event" /\ arc[hi].kind = "DespawnOther") =>
        /\ pc' \in {"on_event", "events"}
        /\ \A t \in Types : listener'[<<entities[ni], t>>] = listener[<<entities[ni], t>>]

C17_RemovedDuringPassSkipped == []C17_NoCallAfterRemoval /\ [][C17_RemovalStep]_vars

C17_Witness ==
    /\ PassComplete
    /\ \E i, k, j \in 1..Len(calls) :
          /\ i < k /\ k < j
          /\ calls[k].kind = "DespawnOther"
          /\ calls[i].ent # calls[k].ent
          /\ calls[j].ent = calls[k].ent
          /\ calls[j].id > calls[k].id

\* C18: when a handler despawns its own entity while its list is iterated, the
\* handlers that follow it in the list are still invoked for that event, in
\* list order and with the same entity id, because the iteration runs over
\* the cloned storage handle; the entity gets no call for any later event.
C18_VisitFollowsHandle ==
    /\ pc = "on_event" =>
          /\ hi <= Len(arc)
          /\ Len(calls) >= hi - 1
          /\ \A n \in 1..(hi - 1) :
                LET c == calls[Len(calls) - (hi - 1) + n]
                IN  /\ c.tag = arc[n].tag
                    /\ c.ent = entities[ni]
                    /\ c.id = batch[ei].id
    /\ \A k, j \in 1..Len(calls) :
          (k < j /\ calls[k].kind = "DespawnSelf" /\ calls[j].ent = calls[k].ent) =>
              /\ calls[j].id = calls[k].id
              /\ calls[j].ty = calls[k].ty

C18_SelfDespawnStep ==
    (pc = "on_event" /\ arc[hi].kind = "DespawnSelf" /\ hi < Len(arc)) =>
        /\ pc' = "on_event"
        /\ hi' = hi + 1
        /\ arc' = arc
        /\ <<entities, ni, ei>>' = <<entities, ni, ei>>
        /\ entities[ni] \notin alive'

C18_ListFinishedAfterSelfDespawn == []C18_VisitFollowsHandle /\ [][C18_SelfDespawnStep]_vars

C18_Witness ==
    /\ PassComplete
    /\ \E t \in map : Len(delivered[t]) >= 2
    /\ \E k, j \in 1..Len(calls) :
          /\ k < j
          /\ calls[k].kind = "DespawnSelf"
          /\ calls[j].ent = calls[k].ent
          /\ calls[j].id = calls[k].id
          /\ calls[j].tag > calls[k].tag
          /\ calls[k].ent \notin alive

\* C19: the events a processor run delivers are fixed when the run starts:
\* while the processor of a type runs its queue is out of the World, so a
\* handler publishing that type through the World adds nothing to it, every
\* invocation carries an event that was in the queue at the start, and the
\* number of events iterated is the number unread when the run began.
Max(a, b) == IF a >= b THEN a ELSE b

C19_BatchFixedAtStart ==
    /\ pc \in {"events", "on_event"} =>
          /\ events[cur].event_count = consumed[cur]
          /\ batch = ReaderIter(events[cur], from[cur])
          /\ delivered[cur] = batch
    /\ \A i \in 1..Len(calls) :
          /\ calls[i].id < consumed[calls[i].ty]
          /\ \E k \in 1..Len(delivered[calls[i].ty]) :
                delivered[calls[i].ty][k].id = calls[i].id
    /\ PassComplete =>
          \A t \in map :
              /\ events[t].event_count = consumed[t]
              /\ Len(delivered[t]) = consumed[t] - Max(from[t], events[t].old_start)

C19_Witness ==
    /\ PassComplete
    /\ Published(Types) < MaxEvents
    /\ \E i \in 1..Len(calls) : calls[i].kind = "Publish"
    /\ \E t \in map : Len(delivered[t]) > 0

\* C20: dispatch is isolated per event type: a handler is invoked only from a
\* list of the type of the running processor and only with events iterated
\* from that type's queue; the run of one type's processor changes no other
\* type's cursor, and a type whose processor has not yet run in the pass has
\* had none of its events delivered.
C20_OwnQueueOnly ==
    /\ \A i \in 1..Len(calls) :
          /\ HasListener(calls[i].ent, calls[i].ty)
          /\ calls[i].tag \in Tags(Unwrap(listener[<<calls[i].ent, calls[i].ty>>]))
          /\ \A u \in Types \ {calls[i].ty} :
                HasListener(calls[i].ent, u) =>
                    calls[i].tag \notin Tags(Unwrap(listener[<<calls[i].ent, u>>]))
          /\ \E k \in 1..Len(delivered[calls[i].ty]) :
                delivered[calls[i].ty][k].id = calls[i].id
    /\ pc \in {"driver", "events", "on_event"} =>
          \A t \in Types :
              /\ runs[t] = 1 => delivered[t] = ReaderIter(events[t], from[t])
              /\ runs[t] = 0 =>
                    /\ delivered[t] = <<>>
                    /\ \A i \in 1..Len(calls) : calls[i].ty # t

C20_CursorStep ==
    /\ (pc = "driver" /\ pc' = "events") =>
          \A u \in Types : u # cur' => reader'[u] = reader[u]
    /\ (pc \notin {"post", "pre"} /\ ~(pc = "driver" /\ pc' = "events")) =>
          reader' = reader

C20_IsolatedPerType == []C20_OwnQueueOnly /\ [][C20_CursorStep]_vars

C20_Witness ==
    /\ pc = "driver"
    /\ calls # <<>>
    /\ \E t \in map \ todo : \E u \in todo :
          /\ Len(delivered[t]) > 0
          /\ events[u].event_count > reader[u]
          /\ \E e \in Entities : HasListener(e, u)

====
